---------------------------- MODULE Spec2Model ----------------------------
(***************************************************************************)
(* Model of the aggregation code of kso_utils (t8_utils.py): the           *)
(* flattening of Zooniverse classifications (process_frames,               *)
(* process_clips), the participation and agreement filter                  *)
(* (aggregrate_labels), the box resolver (filter_bboxes, which lives in    *)
(* koster_utils) and aggregrate_classifications, which chains them.        *)
(*                                                                         *)
(* Tables (pandas DataFrames) are sequences of records, one record per     *)
(* row, in row order.  Thresholds are floats with one decimal in the code  *)
(* (the sliders step by 0.1); here a threshold t is the integer 10*t, and  *)
(* a comparison a/b >= t is written a * Den >= t * b.                      *)
(***************************************************************************)
EXTENDS Integers, Sequences, FiniteSets, TLC

VARIABLES
    pc,             \* which call has been made: "start" before, then its name
    subj_type,      \* "frame" or "clip"
    project_name,   \* project.Project_name
    df,             \* the classification table handed to the call
    agg_params,     \* [agg_users, min_users, agg_obj, agg_iou, agg_iua]
    raw_class_df,   \* the flattened table (the caller's object, mutated in place)
    part_df,        \* aggregrate_labels' local table after the participation step
    agg_labels_df,  \* what aggregrate_labels returned
    new_rows,       \* frame mode: the rows built from the resolver's answers
    agg_class_df,   \* the aggregated table returned
    fb_in,          \* arguments of a direct filter_bboxes call
    fb_out,         \* what that call returned
    outcome,        \* "none" before the call, "returned" or "error" after
    workflows,      \* get_classifications: zip(workflow_ids, workflow_versions)
    class_df,       \* get_classifications: the classifications handed to the call
    subjects,       \* get_classifications: the subjects table of the database
    classes_df,     \* get_classifications: classes_df after the merge with subjects_df
    filtered_class_df,  \* get_classifications: the table returned
    log,            \* the records that logging has emitted
    calls,          \* interleaved invocations: the arguments, position and local
                    \* tables of each
    workflows_df,   \* choose_w_version: the workflows table
    workflow_id,    \* choose_w_version: the display name of the workflow asked for
    w_version,      \* choose_w_version: the dropdown returned
    versions,       \* choose_w_version: the list of versions returned
    movies_df,      \* check_fps_duration: the movies table read from the csv file
    server,         \* check_fps_duration: project.server
    checked_df      \* check_fps_duration: the table returned

\* the variables of a get_classifications call
gc_vars == <<workflows, class_df, subjects, classes_df, filtered_class_df, log>>

\* the variables of a choose_w_version call
wv_vars == <<workflows_df, workflow_id, w_version, versions>>

\* the variables of a check_fps_duration call
mv_vars == <<movies_df, server, checked_df>>

\* the variables of the other calls: interleaved invocations, choose_w_version
\* and check_fps_duration
ext_vars == <<calls, wv_vars, mv_vars>>

vars == <<pc, subj_type, project_name, df, agg_params, raw_class_df, part_df,
          agg_labels_df, new_rows, agg_class_df, fb_in, fb_out, outcome, gc_vars,
          ext_vars>>

\* no get_classifications call is made
NoRetrieval ==
    /\ workflows = <<>>
    /\ class_df = <<>>
    /\ subjects = <<>>
    /\ classes_df = <<>>
    /\ filtered_class_df = <<>>
    /\ log = <<>>

\* no choose_w_version call is made
NoVersionChoice ==
    /\ workflows_df = <<>>
    /\ workflow_id = "none"
    /\ w_version = <<>>
    /\ versions = <<>>

\* no check_fps_duration call is made
NoMovieCheck ==
    /\ movies_df = <<>>
    /\ server = "none"
    /\ checked_df = <<>>

\* none of the other calls is made
NoExtension ==
    /\ calls = <<>>
    /\ NoVersionChoice
    /\ NoMovieCheck

----------------------------------------------------------------------------
(* Bounds of the model and scales *)

\* thresholds are tenths: 6 stands for 0.6
Den == 10
\* the largest number of classifications in a flattened table given to
\* aggregrate_labels
MaxClass == 3
\* the largest min_users tried
MaxMinUsers == 3
\* the largest number of records in a classification table given to
\* aggregrate_classifications
MaxRecords == 2
\* the largest number of boxes given to filter_bboxes, and the largest total_users
MaxBoxes == 3
MaxTotalUsers == 3
\* process_frames: the largest number of records in a table and of shapes
\* in an annotation entry
MaxFrameRecords == 2
MaxShapes == 2
\* a missing number (None / NaN in a numeric column)
NaN == 0 - 1
\* a missing string (None / NaN in a column of strings)
None == "None"
\* the columns of strings, and the missing value of a column
StringCols == {"label", "filename", "https_location", "subject_type"}
missing(c) == IF c \in StringCols THEN None ELSE NaN

Subjects == {1, 2}

----------------------------------------------------------------------------
(* Generic table helpers *)

\* the set of values of column c
ColSet(t, c) == {t[i][c] : i \in DOMAIN t}

\* Series.nunique(): number of distinct values
nunique(S) == Cardinality(S)

\* df[c] = v for one row: add or overwrite a column
SetCol(r, c, v) == (c :> v) @@ r

\* concatenation of a sequence of sequences
RECURSIVE Concat(_)
Concat(ss) == IF ss = <<>> THEN <<>> ELSE Head(ss) \o Concat(Tail(ss))

\* the rows of t not equal to a row before them, in row order
RECURSIVE first_occurrences(_, _)
first_occurrences(t, i) ==
    IF i > Len(t) THEN <<>>
    ELSE (IF \A j \in 1..(i - 1) : t[j] # t[i] THEN <<t[i]>> ELSE <<>>)
         \o first_occurrences(t, i + 1)

----------------------------------------------------------------------------
(* aggregrate_labels: participation and agreement filter *)

\* groupby("subject_ids")["classification_id"].transform("nunique")
n_users(t, s) ==
    nunique({t[j].classification_id : j \in {k \in DOMAIN t : t[k].subject_ids = s}})

\* a mutation of class_n: counts the classifications, not the rows
class_n_unique(t, s, l) ==
    nunique({t[j].classification_id :
                j \in {k \in DOMAIN t : t[k].subject_ids = s /\ t[k].label = l}})

\* groupby(["subject_ids", "label"])["classification_id"].transform("count");
\* a row whose label is None is in no group and gets NaN
class_n(t, s, l) ==
    IF l = None THEN NaN
    ELSE Cardinality({k \in DOMAIN t : t[k].subject_ids = s /\ t[k].label = l})

\* raw_class_df["n_users"] = ... : the column is added to the caller's table
with_n_users(t) ==
    [i \in DOMAIN t |-> SetCol(t[i], "n_users", n_users(t, t[i].subject_ids))]

\* a mutation of participation: the subjects with at most min_users raters
participation_at_most(t, min_users) ==
    SelectSeq(t, LAMBDA r : r.n_users <= min_users)

\* raw_class_df[raw_class_df.n_users >= min_users]
participation(t, min_users) ==
    SelectSeq(t, LAMBDA r : r.n_users >= min_users)

\* a mutation of class_prop: the denominator is taken per subject and label
class_prop_per_label(t, r) ==
    [num |-> r.class_n, den |-> class_n_unique(t, r.subject_ids, r.label)]

\* raw_class_df.class_n / raw_class_df.n_users of one row, kept as a fraction
class_prop(t, r) == [num |-> r.class_n, den |-> r.n_users]

\* the columns class_n and class_prop of the local table
with_class_prop(t) ==
    LET counted == [i \in DOMAIN t |->
                      SetCol(t[i], "class_n", class_n(t, t[i].subject_ids, t[i].label))]
    IN  [i \in DOMAIN t |-> SetCol(counted[i], "class_prop", class_prop(counted, counted[i]))]

\* a mutation of prop_ge: class_prop <= agg_users
prop_le(r, agg_users) ==
    /\ r.class_prop.num # NaN
    /\ r.class_prop.num * Den <= agg_users * r.class_prop.den

\* class_prop >= agg_users, false when class_prop is NaN
prop_ge(r, agg_users) ==
    /\ r.class_prop.num # NaN
    /\ r.class_prop.num * Den >= agg_users * r.class_prop.den

\* a mutation of agreement: every row is handed on
agreement_all(t, agg_users) == t

\* raw_class_df[raw_class_df.class_prop >= agg_users]
agreement(t, agg_users) ==
    SelectSeq(t, LAMBDA r : prop_ge(r, agg_users))

\* the three tables of one call: the caller's table with its new column, the
\* local table with class_n and class_prop, and the returned table
aggregrate_labels(t, agg_users, min_users) ==
    LET caller == with_n_users(t)
        local  == with_class_prop(participation(caller, min_users))
    IN  [raw |-> caller, part |-> local, agg |-> agreement(local, agg_users)]

----------------------------------------------------------------------------
(* process_frames: the frame flattener *)

\* the annotations column holds text: the JSON text of a payload, or text
\* that is not JSON
Json(v) == [text |-> "json", value |-> v]
Malformed == [text |-> "not json", value |-> <<>>]

\* json.loads of a text that parses
json_loads(a) == a.value

\* the numbers of a drawn shape are counted in halves: 8 stands for 4.0 and
\* 3 for 1.5

\* int(v) of a number: the fraction is cut off, towards zero
int(v) == IF v >= 0 THEN v \div 2 ELSE 0 - ((0 - v) \div 2)

\* the row of one drawn shape i; a key the shape lacks gives None
shape_row(cid, i) ==
    [classification_id |-> cid,
     x     |-> IF "x" \in DOMAIN i THEN int(i.x) ELSE NaN,
     y     |-> IF "y" \in DOMAIN i THEN int(i.y) ELSE NaN,
     w     |-> IF "width" \in DOMAIN i THEN int(i.width) ELSE NaN,
     h     |-> IF "height" \in DOMAIN i THEN int(i.height) ELSE NaN,
     label |-> IF "tool_label" \in DOMAIN i THEN i.tool_label ELSE None]

\* the row of a T0 entry without shapes
empty_row(cid) ==
    [classification_id |-> cid, x |-> NaN, y |-> NaN, w |-> NaN, h |-> NaN,
     label |-> "empty"]

\* what one annotation entry appends to rows_list: nothing unless its task is
\* T0; for T0, choice_i is assigned once per shape by the inner loop and
\* appended once after it, so the entry appends the row of its last shape
entry_rows(cid, ann_i) ==
    IF ann_i.task # "T0" THEN <<>>
    ELSE IF ann_i.value = <<>> THEN <<empty_row(cid)>>
    ELSE <<shape_row(cid, ann_i.value[Len(ann_i.value)])>>

\* rows_list after the loop over the records of df
rows_list_frames(d) ==
    Concat([k \in DOMAIN d |->
              Concat([e \in DOMAIN json_loads(d[k].annotations) |->
                        entry_rows(d[k].classification_id,
                                   json_loads(d[k].annotations)[e])])])

\* the columns of the classification table that the flattened table keeps
FrameCols == {"https_location", "filename", "subject_type", "subject_ids",
              "frame_number", "user_name", "movie_id"}
ClipCols  == {"https_location", "subject_type", "subject_ids"}

\* pd.merge(left, right, how="left", on="classification_id") followed by the
\* selection of the columns cols of right: one row per match, in order
merge_left(left, right, cols) ==
    Concat([i \in DOMAIN left |->
        LET m == SelectSeq(right,
                   LAMBDA r : r.classification_id = left[i].classification_id)
        IN  IF m = <<>>
            THEN <<left[i] @@ [c \in cols |-> missing(c)]>>
            ELSE [j \in DOMAIN m |-> left[i] @@ [c \in cols |-> m[j][c]]]])

\* json.loads raises on a record whose payload is not JSON
parses(d) == \A k \in DOMAIN d : d[k].annotations.text = "json"

process_frames(d) == merge_left(rows_list_frames(d), d, FrameCols)

----------------------------------------------------------------------------
(* filter_bboxes: the box resolver (koster_utils, specified in section 4.4) *)

Min(a, b) == IF a < b THEN a ELSE b
Max(a, b) == IF a > b THEN a ELSE b

\* ascending sequence of a finite set of integers
RECURSIVE SortedSeq(_)
SortedSeq(S) ==
    IF S = {} THEN <<>>
    ELSE LET m == CHOOSE a \in S : \A b \in S : a <= b
         IN  <<m>> \o SortedSeq(S \ {m})

\* intersection and union area of two boxes <<x, y, w, h>>
inter_area(a, b) ==
    Max(0, Min(a[1] + a[3], b[1] + b[3]) - Max(a[1], b[1])) *
    Max(0, Min(a[2] + a[4], b[2] + b[4]) - Max(a[2], b[2]))
union_area(a, b) == a[3] * a[4] + b[3] * b[4] - inter_area(a, b)

\* IoU(a, b) >= eps
iou_ge(a, b, eps) ==
    /\ union_area(a, b) > 0
    /\ inter_area(a, b) * Den >= eps * union_area(a, b)

\* the boxes linked to a box of S at IoU >= eps, merged transitively
RECURSIVE component(_, _, _)
component(S, bboxes, eps) ==
    LET T == S \cup {j \in DOMAIN bboxes :
                        \E i \in S : iou_ge(bboxes[i], bboxes[j], eps)}
    IN  IF T = S THEN S ELSE component(T, bboxes, eps)

\* the clusters, each a set of row indices, ordered by their first row
clusters(bboxes, eps) ==
    LET comp   == [i \in DOMAIN bboxes |-> component({i}, bboxes, eps)]
        firsts == {i \in DOMAIN bboxes : \A k \in comp[i] : i <= k}
        order  == SortedSeq(firsts)
    IN  [k \in DOMAIN order |-> comp[order[k]]]

\* a mutation of cluster_users: every box counts, also two of one user
cluster_boxes(c, users) == Cardinality(c)

\* the distinct users with a box in cluster c
cluster_users(c, users) == nunique({users[i] : i \in c})

\* a mutation of accepted: the object threshold is not applied
accepted_iua_only(c, total_users, users, obj, iua) ==
    cluster_users(c, users) * Den >= iua * total_users

\* steps 4 and 5: the share of the group's users in the cluster clears both
\* the agreement threshold iua and the object threshold obj
accepted(c, total_users, users, obj, iua) ==
    /\ cluster_users(c, users) * Den >= iua * total_users
    /\ cluster_users(c, users) * Den >= obj * total_users

RECURSIVE SumOf(_, _, _)
SumOf(c, bboxes, k) ==
    IF c = {} THEN 0
    ELSE LET i == CHOOSE a \in c : TRUE
         IN  bboxes[i][k] + SumOf(c \ {i}, bboxes, k)

\* step 6: the mean of the cluster's boxes, coordinate by coordinate (rounded down)
representative(c, bboxes) ==
    [k \in 1..4 |-> SumOf(c, bboxes, k) \div Cardinality(c)]

\* step 7: the indices of the rows of the accepted clusters, in row order, and
\* one representative box per accepted cluster, in cluster order
consensus(pass, bboxes) ==
    [indices |-> SortedSeq(UNION {pass[k] : k \in DOMAIN pass}),
     boxes   |-> [k \in DOMAIN pass |-> representative(pass[k], bboxes)]]

\* steps 1 to 7 on the boxes of one group
filter_bboxes(total_users, users, bboxes, obj, eps, iua) ==
    consensus(SelectSeq(clusters(bboxes, eps),
                        LAMBDA c : accepted(c, total_users, users, obj, iua)),
              bboxes)

----------------------------------------------------------------------------
(* aggregrate_classifications, frame branch *)

\* the strings of the model in the order pandas sorts them (groupby sorts its keys)
StrOrder == <<"a.jpg", "b.jpg", "clip", "crab", "empty", "fish", "fish (juvenile)",
              "frame", "http://a", "http://b", "shark">>
rank(s) == CHOOSE k \in DOMAIN StrOrder : StrOrder[k] = s

\* x.split("(")[0].strip() on the labels of the model
split_label(l) == IF l = "fish (juvenile)" THEN "fish" ELSE l

\* agg_labels_df["frame_number"].isnull().all()
group_cols(t) ==
    IF \A i \in DOMAIN t : t[i].frame_number = NaN
    THEN <<"filename", "label">>
    ELSE <<"filename", "label", "frame_number">>

\* the key of a row under the grouping columns
key_of(r, cols) == [k \in DOMAIN cols |-> r[cols[k]]]

\* groupby leaves out the rows with a missing value in a key column
key_ok(r, cols) ==
    \A k \in DOMAIN cols : r[cols[k]] # missing(cols[k])

\* order of two keys: strings by rank, the frame number as a number
key_less(a, b) ==
    \/ rank(a[1]) < rank(b[1])
    \/ /\ a[1] = b[1]
       /\ \/ rank(a[2]) < rank(b[2])
          \/ a[2] = b[2] /\ Len(a) = 3 /\ a[3] < b[3]

RECURSIVE sort_keys(_)
sort_keys(K) ==
    IF K = {} THEN <<>>
    ELSE LET m == CHOOSE a \in K : \A b \in K \ {a} : key_less(a, b)
         IN  <<m>> \o sort_keys(K \ {m})

\* agg_labels_df.groupby(group_cols): the keys in sorted order, each with its
\* rows in row order
frame_groups(t) ==
    LET cols == group_cols(t)
        keys == sort_keys({key_of(t[i], cols) :
                             i \in {j \in DOMAIN t : key_ok(t[j], cols)}})
    IN  [k \in DOMAIN keys |->
            [name  |-> keys[k],
             group |-> SelectSeq(t, LAMBDA r : key_ok(r, cols)
                                                /\ key_of(r, cols) = keys[k])]]

\* a mutation of total_users: all raters of the group's subject, also those
\* who marked it empty
total_users_of_subject(t, g) == g.group[1].n_users

\* the users of agg_labels_df on the rows that carry the key of the group
total_users(t, g) ==
    nunique({t[i].user_name :
               i \in {j \in DOMAIN t : /\ key_ok(t[j], group_cols(t))
                                       /\ key_of(t[j], group_cols(t)) = g.name}})

\* what filter_bboxes answers for a group
resolve(t, g, p) ==
    filter_bboxes(total_users(t, g),
                  [i \in DOMAIN g.group |-> g.group[i].user_name],
                  [i \in DOMAIN g.group |->
                      <<g.group[i].x, g.group[i].y, g.group[i].w, g.group[i].h>>],
                  p.agg_obj, p.agg_iou, p.agg_iua)

\* a mutation of paired: each selected subject id is used once
paired_unique(subject_ids, boxes) ==
    LET firsts == first_occurrences(subject_ids, 1)
    IN  [k \in 1..Min(Len(firsts), Len(boxes)) |-> <<firsts[k], boxes[k]>>]

\* zip(subject_ids, new_group): pairs up to the shorter of the two
paired(subject_ids, boxes) ==
    [k \in 1..Min(Len(subject_ids), Len(boxes)) |-> <<subject_ids[k], boxes[k]>>]

\* new_rows.append((filename, label, start_frame, ix) + tuple(box)) for
\* every pair ix, box
appended(name, zipped) ==
    [k \in DOMAIN zipped |->
        [filename    |-> name[1],
         label       |-> name[2],
         start_frame |-> IF Len(name) = 3 THEN name[3] ELSE NaN,
         subject_ids |-> zipped[k][1],
         x |-> zipped[k][2][1], y |-> zipped[k][2][2],
         w |-> zipped[k][2][3], h |-> zipped[k][2][4]]]

\* the rows appended for one group when filter_bboxes has answered fb:
\* subject_ids = [i[subject_id_pos] for i in group.values[indices]]
rows_of_answer(g, fb) ==
    appended(g.name,
             paired([k \in DOMAIN fb.indices |-> g.group[fb.indices[k]].subject_ids],
                    fb.boxes))

\* the rows appended to new_rows for one group
group_rows(t, g, p) == rows_of_answer(g, resolve(t, g, p))

\* new_rows after the loop over the groups
rows_of_groups(t, gs, p) == Concat([k \in DOMAIN gs |-> group_rows(t, gs[k], p)])

frame_new_rows(t, p) == rows_of_groups(t, frame_groups(t), p)

\* df[cols]: the columns cols of every row
select_cols(t, cols) == [i \in DOMAIN t |-> [c \in cols |-> t[i][c]]]

\* a mutation of drop_duplicates: equal rows are all kept
keep_duplicates(t) == t

\* drop_duplicates(): the first of equal rows is kept
drop_duplicates(t) == first_occurrences(t, 1)

\* pd.merge(left, right, how="left", on="subject_ids")
merge_subject(left, right) ==
    Concat([i \in DOMAIN left |->
        LET m == SelectSeq(right, LAMBDA r : r.subject_ids = left[i].subject_ids)
        IN  IF m = <<>>
            THEN <<left[i] @@ [https_location |-> None, subject_type |-> None,
                               filename |-> None]>>
            ELSE [j \in DOMAIN m |-> left[i] @@ m[j]]])

BoxCols == {"subject_ids", "label", "x", "y", "w", "h"}

\* agg_labels_df[agg_labels_df["label"] == "empty"] with the columns kept
empty_frames(t) == select_cols(SelectSeq(t, LAMBDA r : r.label = "empty"), BoxCols)

\* agg_labels_df[agg_labels_df["label"] != "empty"]
exclude_empty(t) == SelectSeq(t, LAMBDA r : r.label # "empty")

\* agg_class_df["label"].apply(lambda x: x.split("(")[0].strip())
relabel(rows) ==
    [i \in DOMAIN rows |-> SetCol(rows[i], "label", split_label(rows[i].label))]

\* raw_class_df[["subject_ids", "https_location", "subject_type",
\* "filename"]].drop_duplicates()
subject_info(raw) ==
    drop_duplicates(select_cols(raw,
        {"subject_ids", "https_location", "subject_type", "filename"}))

\* the tables of the frame branch once new_rows is built
frame_tables(lab, boxed, rows) ==
    [raw |-> lab.raw, part |-> lab.part, labels |-> lab.agg, boxed |-> boxed,
     new_rows |-> rows,
     agg |-> merge_subject(
                drop_duplicates(select_cols(relabel(rows), BoxCols)
                                \o empty_frames(lab.agg)),
                subject_info(lab.raw))]

\* the frame branch from the loop over the groups of the boxed rows on
frames_of_boxed(lab, boxed, p) == frame_tables(lab, boxed, frame_new_rows(boxed, p))

\* the frame branch once aggregrate_labels has answered lab
frames_of_labels(lab, p) == frames_of_boxed(lab, exclude_empty(lab.agg), p)

\* the frame branch from the flattened table on: every table it builds
aggregrate_frames(flat, p) ==
    frames_of_labels(aggregrate_labels(flat, p.agg_users, p.min_users), p)

----------------------------------------------------------------------------
(* process_clips and the clip branch of aggregrate_classifications *)

\* numbers of the clip columns how_many and first_seen are counted in halves:
\* 2 stands for 1.0 and 3 for 1.5

\* process_clips_koster / process_clips_spyfish (koster_utils, spyfish_utils):
\* the (label, first_seen, how_many) tuples the project's extraction yields
\* for one classification, one row each
process_clips_project(annotations, cid) ==
    [e \in DOMAIN annotations |->
        [classification_id |-> cid,
         label      |-> annotations[e].label,
         first_seen |-> annotations[e].first_seen,
         how_many   |-> annotations[e].how_many]]

SupportedProjects == {"Koster_Seafloor_Obs", "Spyfish_Aotearoa"}

\* rows_list after the loop: nothing is extracted for another project
rows_list_clips(d, project) ==
    IF project \in SupportedProjects
    THEN Concat([k \in DOMAIN d |->
                   process_clips_project(json_loads(d[k].annotations),
                                         d[k].classification_id)])
    ELSE <<>>

process_clips(d, project) == merge_left(rows_list_clips(d, project), d, ClipCols)

\* ascending sequence of the values vals[i], i in I, with repetitions
RECURSIVE sorted_values(_, _)
sorted_values(vals, I) ==
    IF I = {} THEN <<>>
    ELSE LET m == CHOOSE i \in I : \A j \in I : vals[i] <= vals[j]
         IN  <<vals[m]>> \o sorted_values(vals, I \ {m})

\* a mutation of median: the number of values (in halves)
count(vals) == 2 * Len(vals)

\* a mutation of median: the mean
mean(vals) ==
    LET RECURSIVE sum(_)
        sum(q) == IF q = <<>> THEN 0 ELSE Head(q) + sum(Tail(q))
    IN  sum(vals) \div Len(vals)

\* Series.median(): the middle value, or the mean of the two middle values
median(vals) ==
    LET srt == sorted_values(vals, DOMAIN vals)
        n   == Len(srt)
    IN  IF n % 2 = 1 THEN srt[(n + 1) \div 2]
        ELSE (srt[n \div 2] + srt[n \div 2 + 1]) \div 2

\* a mutation of clip_key_cols: the count is a grouping column too
ClipKeyColsWithCount ==
    <<"subject_ids", "https_location", "subject_type", "label", "how_many">>

\* the grouping columns of the clip reducer
clip_key_cols == <<"subject_ids", "https_location", "subject_type", "label">>

clip_key_ok(r) == \A k \in DOMAIN clip_key_cols : r[clip_key_cols[k]] # missing(clip_key_cols[k])

\* order of two clip keys, column by column: numbers as numbers, strings by rank
RECURSIVE clip_key_less(_, _, _)
clip_key_less(a, b, k) ==
    /\ k <= Len(a)
    /\ LET num == clip_key_cols[k] \in {"subject_ids", "how_many"}
           va  == IF num THEN a[k] ELSE rank(a[k])
           vb  == IF num THEN b[k] ELSE rank(b[k])
       IN  va < vb \/ (va = vb /\ clip_key_less(a, b, k + 1))

RECURSIVE sort_clip_keys(_)
sort_clip_keys(K) ==
    IF K = {} THEN <<>>
    ELSE LET m == CHOOSE a \in K : \A b \in K \ {a} : clip_key_less(a, b, 1)
         IN  <<m>> \o sort_clip_keys(K \ {m})

\* agg_class_df.groupby([...], as_index=False)[["how_many", "first_seen"]].median():
\* one row per key, in key order
clip_reduce(t) ==
    LET cols == clip_key_cols
        keys == sort_clip_keys({key_of(t[i], cols) :
                                  i \in {j \in DOMAIN t : clip_key_ok(t[j])}})
    IN  [k \in DOMAIN keys |->
            LET g == SelectSeq(t, LAMBDA r : clip_key_ok(r) /\ key_of(r, cols) = keys[k])
            IN  [how_many   |-> median([i \in DOMAIN g |-> g[i].how_many]),
                 first_seen |-> median([i \in DOMAIN g |-> g[i].first_seen])] @@
                [c \in {cols[j] : j \in DOMAIN cols} |-> g[1][c]]]

\* the clip branch from the flattened table on
clip_tables(lab) ==
    [raw |-> lab.raw, part |-> lab.part, labels |-> lab.agg, boxed |-> <<>>,
     new_rows |-> <<>>, agg |-> clip_reduce(lab.agg)]

aggregrate_clips(flat, p) ==
    clip_tables(aggregrate_labels(flat, p.agg_users, p.min_users))

----------------------------------------------------------------------------
(* aggregrate_classifications *)

\* pd.merge(raw_class_df, df[["classification_id", "user_name"]], how="left"):
\* a user_name column of the flattened table is renamed user_name_x and the
\* merged one user_name_y
add_user_name(raw, d) ==
    Concat([i \in DOMAIN raw |->
        LET m == SelectSeq(d, LAMBDA r : r.classification_id = raw[i].classification_id)
            old == raw[i]
            rest == [c \in DOMAIN old \ {"user_name"} |-> old[c]]
            put(u) == IF "user_name" \in DOMAIN old
                      THEN rest @@ [user_name_x |-> old.user_name, user_name_y |-> u]
                      ELSE old @@ [user_name |-> u]
        IN  IF m = <<>> THEN <<put(NaN)>>
            ELSE [j \in DOMAIN m |-> put(m[j].user_name)]])

\* the tables of one call that does not raise
with_user_name(out, d) == [out EXCEPT !.raw = add_user_name(out.raw, d)]

aggregrate_classifications(d, type, project, p) ==
    with_user_name(IF type = "frame"
                   THEN aggregrate_frames(process_frames(d), p)
                   ELSE aggregrate_clips(process_clips(d, project), p),
                   d)

----------------------------------------------------------------------------
(* get_classifications: selection by workflow, join with the subjects table *)

\* the levels of the logging module
INFO == 20
WARNING == 30

\* logging.basicConfig(level=logging.WARNING): the level of the root logger
root_level == WARNING

\* logging.info(...) on the root logger: the record is emitted when its level
\* is at least the level of the logger
emitted(level, record) == IF level >= root_level THEN <<record>> ELSE <<>>

\* class_df[(class_df.workflow_id == id) & (class_df.workflow_version >= version)]
of_workflow(t, w) ==
    SelectSeq(t, LAMBDA r : r.workflow_id = w.id /\ r.workflow_version >= w.version)

\* the loop over zip(workflow_ids, workflow_versions): class_df is replaced by
\* its filtered rows, and these are appended to classes_df
RECURSIVE workflow_loop(_, _, _)
workflow_loop(t, acc, ws) ==
    IF ws = <<>> THEN acc
    ELSE workflow_loop(of_workflow(t, Head(ws)), acc \o of_workflow(t, Head(ws)),
                       Tail(ws))

\* the columns of the two queries on the subjects table
SubjectCols(type) ==
    {"id", "subject_type", "https_location", "filename", "movie_id"} \cup
    (IF type = "frame" THEN {"frame_number"} ELSE {"clip_start_time"})

\* SELECT ... FROM subjects WHERE subject_type == 'frame' (or 'clip')
subjects_df(S, type) ==
    LET wanted == IF type = "frame" THEN "frame" ELSE "clip"
    IN  select_cols(SelectSeq(S, LAMBDA r : r.subject_type = wanted), SubjectCols(type))

\* pd.merge(classes_df, subjects_df, how="left", left_on="subject_ids", right_on="id")
merge_subjects_df(left, right, cols) ==
    Concat([i \in DOMAIN left |->
        LET m == SelectSeq(right, LAMBDA r : r.id = left[i].subject_ids)
        IN  IF m = <<>>
            THEN <<left[i] @@ [c \in cols |-> missing(c)]>>
            ELSE [j \in DOMAIN m |-> left[i] @@ m[j]]])

\* a mutation of dropna: only the subject type is looked at
dropna_type(t) == SelectSeq(t, LAMBDA r : r.subject_type # None)

\* classes_df.dropna(subset=["subject_type", "https_location"], how="any")
dropna(t) ==
    SelectSeq(t, LAMBDA r : r.subject_type # None /\ r.https_location # None)

\* the report on the dropped classifications and the closing message, as
\* far as the root logger emits them
reports(merged, kept) ==
    (IF Len(kept) # Len(merged)
     THEN emitted(INFO, [msg |-> "There are",
                         args |-> <<Len(merged) - Len(kept), Len(merged)>>])
     ELSE <<>>)
    \o emitted(INFO, [msg |-> "Zooniverse classifications have been retrieved",
                      args |-> <<>>])

\* the tables of a call from the merge on
retrieved(merged) ==
    [classes_df |-> merged, filtered_class_df |-> dropna(merged),
     log |-> reports(merged, dropna(merged))]

\* classes_df = pd.DataFrame() has no column when no workflow is selected,
\* and classes_df["subject_ids"] raises KeyError
raises_key_error(ws) == ws = <<>>

\* get_classifications(workflow_dict, workflows_df, subj_type, class_df, db_path,
\* project) when it does not raise
get_classifications(ws, t, S, type) ==
    retrieved(merge_subjects_df(workflow_loop(t, <<>>, ws), subjects_df(S, type),
                                SubjectCols(type)))

----------------------------------------------------------------------------
(* Inputs *)

\* sequences over S of length 0..n
SeqsUpTo(S, n) == UNION {[1..k -> S] : k \in 0..n}

\* the users of n classifications up to renaming: the first is user 1 and
\* each next one is a user seen before or the next new user
UserSeqs(n) ==
    {u \in [1..n -> 1..n] :
        \A i \in 1..n : \A v \in 2..n :
            u[i] = v => \E j \in 1..(i - 1) : u[j] = v - 1}

\* the row of the subjects table for subject s
SubjectInfo(s, type) ==
    [subject_ids    |-> s,
     https_location |-> IF s = 1 THEN "http://a" ELSE "http://b",
     filename       |-> IF s = 1 THEN "a.jpg" ELSE "b.jpg",
     subject_type   |-> type,
     frame_number   |-> s,
     movie_id       |-> 1]

\* a classification table: record k has id k, subject s[k], user u[k] and
\* payload a[k], joined with its subject's row as get_classifications does
ClassTable(s, u, a, type) ==
    [k \in DOMAIN s |->
        [classification_id |-> k, user_name |-> u[k], annotations |-> a[k]]
        @@ SubjectInfo(s[k], type)]

\* the subjects of n classifications up to renaming: the first is subject 1
SubjectSeqs(n) == {s \in [1..n -> Subjects] : n > 0 => s[1] = 1}

\* the users of k records of the given type; the clip branch reads no user
\* name, and its records are each by another user
RecordUsers(k, type) == IF type = "frame" THEN UserSeqs(k) ELSE {[i \in 1..k |-> i]}

\* drawn shapes, in halves: the boxes of A (0, 0, 4, 4) and B (1.5, 0, 4, 4;
\* flattened to 1, 0, 4, 4) overlap at IoU 0.6, C (10, 10, 2, 2) is far from
\* both
ShapeA == [x |-> 0, y |-> 0, width |-> 8, height |-> 8, tool_label |-> "fish"]
ShapeB == [x |-> 3, y |-> 0, width |-> 8, height |-> 8, tool_label |-> "fish"]
ShapeC == [x |-> 20, y |-> 20, width |-> 4, height |-> 4, tool_label |-> "fish"]
\* a shape without x and without tool_label
ShapeP == [y |-> 0, width |-> 8, height |-> 8]

T0(value) == [task |-> "T0", value |-> value]
T1 == [task |-> "T1", value |-> <<>>]

----------------------------------------------------------------------------
(* Calls of aggregrate_labels on a flattened table *)

LabelLists == {<<"fish">>, <<"crab">>, <<"fish", "fish">>}

\* the flattened table of classifications with the given subjects, users and labels
LabelTable(s, u, ls) ==
    Concat([k \in DOMAIN s |->
        [e \in DOMAIN ls[k] |->
            [classification_id |-> k, subject_ids |-> s[k], user_name |-> u[k],
             label |-> ls[k][e]]]])

\* scenario A: five raters label subject 42 "fish"
ScenarioA == LabelTable([k \in 1..5 |-> 42], [k \in 1..5 |-> k],
                        [k \in 1..5 |-> <<"fish">>])
\* scenario B: two raters classify subject 7
ScenarioB == LabelTable([k \in 1..2 |-> 7], [k \in 1..2 |-> k],
                        <<<<"fish">>, <<"crab">>>>)

LabelParams(n) ==
    {[agg_users |-> a, min_users |-> m] : a \in {0, 5, 6, 10}, m \in 0..n}

\* the flattened tables of up to MaxClass classifications, and the two scenarios
InitLabels ==
    /\ \/ raw_class_df \in {ScenarioA, ScenarioB}
       \/ \E k \in 0..MaxClass :
            \E s \in SubjectSeqs(k), u \in UserSeqs(k), ls \in [1..k -> LabelLists] :
              raw_class_df = LabelTable(s, u, ls)
    /\ pc = "start"
    /\ subj_type = "frame"
    /\ project_name = "Koster_Seafloor_Obs"
    /\ df = <<>>
    /\ agg_params = <<>>
    /\ part_df = <<>>
    /\ agg_labels_df = <<>>
    /\ new_rows = <<>>
    /\ agg_class_df = <<>>
    /\ fb_in = <<>>
    /\ fb_out = <<>>
    /\ outcome = "none"
    /\ NoRetrieval
    /\ NoExtension

\* aggregrate_labels(raw_class_df, agg_users, min_users)
AggregrateLabels ==
    /\ pc = "start"
    /\ \E p \in LabelParams(MaxMinUsers) :
         LET r == aggregrate_labels(raw_class_df, p.agg_users, p.min_users)
         IN  /\ agg_params' = p
             /\ raw_class_df' = r.raw
             /\ part_df' = r.part
             /\ agg_labels_df' = r.agg
    /\ pc' = "aggregrate_labels"
    /\ UNCHANGED gc_vars
    /\ UNCHANGED ext_vars
    /\ outcome' = "returned"
    /\ UNCHANGED <<subj_type, project_name, df, new_rows, agg_class_df, fb_in, fb_out>>

NextLabels == AggregrateLabels

SpecLabels == InitLabels /\ [][NextLabels]_vars

----------------------------------------------------------------------------
(* Claims on aggregrate_labels, checked under SpecLabels *)

LabelsDone == pc = "aggregrate_labels"

\* the columns of the table given to aggregrate_labels, with the one it adds
FlatCols == {"classification_id", "subject_ids", "user_name", "label", "n_users"}

\* the distinct user identifiers among the rows of subject s
distinct_users(t, s) ==
    Cardinality({t[i].user_name : i \in {j \in DOMAIN t : t[j].subject_ids = s}})

\* the classifications (submissions) among the rows of subject s
distinct_classifications(t, s) ==
    Cardinality({t[i].classification_id : i \in {j \in DOMAIN t : t[j].subject_ids = s}})

\* C1 as claimed: the participation step keeps exactly the rows whose subject
\* has at least min_users distinct users among its rows.
C1_ParticipationByDistinctUsers ==
    LabelsDone =>
        select_cols(part_df, FlatCols) =
            SelectSeq(raw_class_df,
                LAMBDA r : distinct_users(raw_class_df, r.subject_ids)
                               >= agg_params.min_users)

C9_ClassPropInUnitInterval ==
    LabelsDone =>
        \A i \in DOMAIN part_df :
            /\ part_df[i].n_users >= 0
            /\ 0 <= part_df[i].class_prop.num
            /\ part_df[i].class_prop.num <= part_df[i].class_prop.den

----------------------------------------------------------------------------
(* Calls of filter_bboxes *)

\* boxes <<x, y, w, h>>: BoxA-BoxB and BoxB-BoxB2 overlap at IoU 0.6,
\* BoxA-BoxB2 at 1/3, BoxC overlaps none of them
BoxA  == <<0, 0, 4, 4>>
BoxB  == <<1, 0, 4, 4>>
BoxB2 == <<2, 0, 4, 4>>
BoxC  == <<10, 10, 2, 2>>
Boxes == {BoxA, BoxB, BoxB2, BoxC}

\* scenario C: of 4 raters, 3 draw overlapping boxes and 1 an unrelated box;
\* obj = eps = iua = 0.5
ScenarioC ==
    [total_users |-> 4, users |-> <<1, 2, 3, 4>>,
     bboxes |-> <<BoxA, BoxB, BoxC, BoxA>>, obj |-> 5, eps |-> 5, iua |-> 5]

\* a call of the resolver
ResolverInput(t, u, b, o, a) ==
    [total_users |-> t, users |-> u, bboxes |-> b, obj |-> o, eps |-> 5, iua |-> a]

\* the calls have up to MaxBoxes boxes and total_users from the number of
\* their users up to MaxTotalUsers, or are scenario C
InitResolver ==
    /\ \/ fb_in = ScenarioC
       \/ \E k \in 0..MaxBoxes :
            \E u \in UserSeqs(k), b \in [1..k -> Boxes] :
              \E t \in 1..MaxTotalUsers, o \in {5, 10}, a \in {5, 10} :
                /\ t >= nunique({u[j] : j \in 1..k})
                /\ fb_in = ResolverInput(t, u, b, o, a)
    /\ pc = "start"
    /\ subj_type = "frame"
    /\ project_name = "Koster_Seafloor_Obs"
    /\ df = <<>>
    /\ agg_params = <<>>
    /\ raw_class_df = <<>>
    /\ part_df = <<>>
    /\ agg_labels_df = <<>>
    /\ new_rows = <<>>
    /\ agg_class_df = <<>>
    /\ fb_out = <<>>
    /\ outcome = "none"
    /\ NoRetrieval
    /\ NoExtension

\* filter_bboxes(total_users, users, bboxes, obj, eps, iua)
FilterBboxes ==
    /\ pc = "start"
    /\ fb_out' = filter_bboxes(fb_in.total_users, fb_in.users, fb_in.bboxes,
                               fb_in.obj, fb_in.eps, fb_in.iua)
    /\ pc' = "filter_bboxes"
    /\ UNCHANGED gc_vars
    /\ UNCHANGED ext_vars
    /\ outcome' = "returned"
    /\ UNCHANGED <<subj_type, project_name, df, agg_params, raw_class_df, part_df,
                   agg_labels_df, new_rows, agg_class_df, fb_in>>

NextResolver == FilterBboxes

SpecResolver == InitResolver /\ [][NextResolver]_vars

----------------------------------------------------------------------------
(* Claims on filter_bboxes, checked under SpecResolver *)

ResolverDone == pc = "filter_bboxes"

Range(q) == {q[i] : i \in DOMAIN q}

\* two boxes of the call overlap at IoU >= eps
linked(i, j) == iou_ge(fb_in.bboxes[i], fb_in.bboxes[j], fb_in.eps)

\* c is a cluster of the call: non-empty, closed under overlap, and not the
\* union of two non-empty parts without an overlap between them
is_cluster(c) ==
    /\ c # {}
    /\ \A i \in c : \A j \in DOMAIN fb_in.bboxes \ c : ~linked(i, j)
    /\ \A d \in SUBSET c :
          (d # {} /\ d # c) => \E i \in d : \E j \in c \ d : linked(i, j)

\* the share of total_users with a box in c is >= t
share_ge(c, t) ==
    Cardinality({fb_in.users[i] : i \in c}) * Den >= t * fb_in.total_users

\* C4: every consensus box returned is the representative of a cluster
\* whose distinct users, each counted once, are a share of total_users
\* >= iua and >= obj, and the contributing rows returned are rows of such
\* clusters; in scenario C exactly one box is returned, for the three
\* overlapping boxes, and the unrelated box is dropped.
C4_AcceptanceRule ==
    ResolverDone =>
        /\ \A k \in DOMAIN fb_out.boxes :
              \E c \in SUBSET DOMAIN fb_in.bboxes :
                  /\ is_cluster(c)
                  /\ share_ge(c, fb_in.iua) /\ share_ge(c, fb_in.obj)
                  /\ fb_out.boxes[k] = representative(c, fb_in.bboxes)
        /\ \A i \in Range(fb_out.indices) :
              \E c \in SUBSET DOMAIN fb_in.bboxes :
                  /\ i \in c /\ is_cluster(c)
                  /\ share_ge(c, fb_in.iua) /\ share_ge(c, fb_in.obj)
        /\ fb_in = ScenarioC =>
              /\ fb_out.indices = <<1, 2, 4>>
              /\ Len(fb_out.boxes) = 1

\* C4 witness: a cluster holding two boxes of one user and one box of
\* another, of 3 users in total, is dropped at iua = 1.0: its share is 2/3,
\* not 3/3.
C4_Witness ==
    /\ ResolverDone
    /\ fb_in.total_users = 3 /\ fb_in.iua = 10 /\ fb_in.eps = 5
    /\ fb_in.users = <<1, 1, 2>>
    /\ fb_in.bboxes = <<BoxA, BoxB, BoxA>>
    /\ fb_out.boxes = <<>>

\* box i overlaps no other box of the call
alone(i) == \A j \in DOMAIN fb_in.bboxes \ {i} : ~linked(i, j)

\* C5: a box that overlaps no other box is a cluster of its own; its row
\* and its box are returned if and only if 1/total_users >= iua and
\* 1/total_users >= obj, and otherwise it yields nothing: its row is not
\* returned and a returned box equal to it is the box of another cluster.
C5_LoneBox ==
    ResolverDone =>
        \A i \in DOMAIN fb_in.bboxes :
            alone(i) =>
                LET ok == /\ Den >= fb_in.iua * fb_in.total_users
                          /\ Den >= fb_in.obj * fb_in.total_users
                IN  /\ (i \in Range(fb_out.indices)) <=> ok
                    /\ ok => fb_in.bboxes[i] \in Range(fb_out.boxes)
                    /\ ~ok => \A k \in DOMAIN fb_out.boxes :
                                 fb_out.boxes[k] = fb_in.bboxes[i] =>
                                     \E c \in SUBSET (DOMAIN fb_in.bboxes \ {i}) :
                                         /\ is_cluster(c)
                                         /\ fb_out.boxes[k] =
                                               representative(c, fb_in.bboxes)

\* C5 witness: of two lone boxes of two raters, both are accepted at
\* iua = obj = 0.5 (1/2 clears both thresholds).
C5_Witness ==
    /\ ResolverDone
    /\ fb_in.total_users = 2 /\ fb_in.iua = 5 /\ fb_in.obj = 5
    /\ fb_in.bboxes = <<BoxA, BoxC>> /\ fb_in.users = <<1, 2>>
    /\ fb_out.indices = <<1, 2>> /\ fb_out.boxes = <<BoxA, BoxC>>

----------------------------------------------------------------------------
(* Calls of process_frames *)

FrameShapes == {ShapeA, ShapeB, ShapeP}

\* payloads of up to two entries, one of them with up to m drawn shapes,
\* and a text that is not JSON
FramePayloads(m) ==
    {Json(<<>>), Json(<<T1>>), Malformed} \cup
    UNION {{Json(<<T0(v)>>), Json(<<T1, T0(v)>>), Json(<<T0(v), T0(<<>>)>>),
            Json(<<T0(v), T0(<<ShapeA>>)>>)} : v \in SeqsUpTo(FrameShapes, m)}

PlainPayloads == {Json(<<T0(<<>>)>>), Json(<<T0(<<ShapeA>>)>>), Malformed}

\* tables of up to n records of one subject, each by another user: one
\* record with any of the payloads above among records with a plain payload
FrameTables(n, m) ==
    UNION {{ClassTable([i \in 1..k |-> 1], [i \in 1..k |-> i], a, "frame") :
               a \in {b \in [1..k -> FramePayloads(m)] :
                        \E i \in 1..k : \A j \in (1..k) \ {i} : b[j] \in PlainPayloads}} :
           k \in 0..n}

InitFrames ==
    /\ df \in FrameTables(MaxFrameRecords, MaxShapes)
    /\ pc = "start"
    /\ subj_type = "frame"
    /\ project_name = "Koster_Seafloor_Obs"
    /\ agg_params = <<>>
    /\ raw_class_df = <<>>
    /\ part_df = <<>>
    /\ agg_labels_df = <<>>
    /\ new_rows = <<>>
    /\ agg_class_df = <<>>
    /\ fb_in = <<>>
    /\ fb_out = <<>>
    /\ outcome = "none"
    /\ NoRetrieval
    /\ NoExtension

\* process_frames(df, project_name): json.loads raises on the first record
\* whose payload is not JSON, and nothing is returned
ProcessFrames ==
    /\ pc = "start"
    /\ IF parses(df)
       THEN raw_class_df' = process_frames(df) /\ outcome' = "returned"
       ELSE raw_class_df' = raw_class_df /\ outcome' = "error"
    /\ pc' = "process_frames"
    /\ UNCHANGED gc_vars
    /\ UNCHANGED ext_vars
    /\ UNCHANGED <<subj_type, project_name, df, agg_params, part_df, agg_labels_df,
                   new_rows, agg_class_df, fb_in, fb_out>>

NextFrames == ProcessFrames

SpecFrames == InitFrames /\ [][NextFrames]_vars

----------------------------------------------------------------------------
(* Claims on process_frames, checked under SpecFrames *)

FramesDone == pc = "process_frames" /\ outcome = "returned"

AnnotationCols == {"classification_id", "x", "y", "w", "h", "label"}

\* the rows C3 states for one T0 entry: one "empty" row without geometry
\* when nothing is drawn, else one row per drawn shape, in payload order
claimed_entry_rows(cid, ann_i) ==
    IF ann_i.value = <<>>
    THEN <<[classification_id |-> cid, x |-> NaN, y |-> NaN, w |-> NaN, h |-> NaN,
            label |-> "empty"]>>
    ELSE [k \in DOMAIN ann_i.value |-> shape_row(cid, ann_i.value[k])]

\* C3 as claimed: the flattened table holds, record by record and T0 entry
\* by T0 entry, one "empty" row for an entry without shapes and k rows, one
\* per shape in payload order, for an entry with k >= 1 shapes.
C3_OneRowPerShape ==
    FramesDone =>
        select_cols(raw_class_df, AnnotationCols) =
            Concat([k \in DOMAIN df |->
                Concat([e \in DOMAIN df[k].annotations.value |->
                    IF df[k].annotations.value[e].task = "T0"
                    THEN claimed_entry_rows(df[k].classification_id,
                                            df[k].annotations.value[e])
                    ELSE <<>>])])

\* the records of d whose payload json.loads parses
parsable(d) == SelectSeq(d, LAMBDA r : r.annotations.text = "json")

\* C11 as claimed: process_frames on a batch returns, and its table is the
\* flattening of the records whose payload parses; a record whose payload
\* does not parse is skipped and the rows of the other records are produced.
C11_MalformedPayloadIsolation ==
    pc = "process_frames" =>
        /\ outcome = "returned"
        /\ raw_class_df = process_frames(parsable(df))

----------------------------------------------------------------------------
(* Calls of aggregrate_classifications *)

PipelineFramePayloads ==
    {Json(<<T0(<<>>)>>), Json(<<T0(<<ShapeA>>)>>), Json(<<T0(<<ShapeB>>)>>),
     Json(<<T0(<<ShapeC>>)>>), Json(<<T0(<<ShapeA>>), T0(<<ShapeC>>)>>)}

\* a species event of a clip: label, first_seen and how_many (in halves)
Event(l, f, n) == [label |-> l, first_seen |-> f, how_many |-> n]

PipelineClipPayloads ==
    {Json(<<>>), Json(<<Event("shark", 6, 2)>>), Json(<<Event("shark", 2, 4)>>),
     Json(<<Event("shark", 4, 10)>>),
     Json(<<Event("shark", 6, 2), Event("crab", 0, 2)>>), Malformed}

\* scenario D: four raters count 1, 1, 2 and 5 sharks in clip subject 5
ScenarioD ==
    ClassTable([k \in 1..4 |-> 5], [k \in 1..4 |-> k],
               <<Json(<<Event("shark", 6, 2)>>), Json(<<Event("shark", 2, 4)>>),
                 Json(<<Event("shark", 6, 2)>>), Json(<<Event("shark", 4, 10)>>)>>,
               "clip")

FrameParams ==
    {[agg_users |-> a, min_users |-> m, agg_obj |-> o, agg_iou |-> 5, agg_iua |-> i] :
        a \in {5}, m \in 1..2, o \in {5, 10}, i \in {5, 10}}
    \cup
    {[agg_users |-> 0, min_users |-> 1, agg_obj |-> 5, agg_iou |-> 5, agg_iua |-> 5],
     [agg_users |-> 5, min_users |-> 0, agg_obj |-> 5, agg_iou |-> 5, agg_iua |-> 5],
     [agg_users |-> 12, min_users |-> 1, agg_obj |-> 5, agg_iou |-> 5, agg_iua |-> 5],
     [agg_users |-> 5, min_users |-> 1, agg_obj |-> 5, agg_iou |-> 5, agg_iua |-> 12]}

ClipParams ==
    {[agg_users |-> a, min_users |-> m] : a \in {5, 10}, m \in 1..2}
    \cup
    {[agg_users |-> 5, min_users |-> 0], [agg_users |-> 12, min_users |-> 1]}

Projects == {"Koster_Seafloor_Obs", "Spyfish_Aotearoa", "Template project"}

Init ==
    /\ \/ /\ subj_type = "frame"
          /\ project_name = "Koster_Seafloor_Obs"
          /\ \E k \in 0..MaxRecords :
               \E s \in SubjectSeqs(k), u \in RecordUsers(k, "frame"),
                  a \in [1..k -> PipelineFramePayloads] :
                 df = ClassTable(s, u, a, "frame")
       \/ /\ subj_type = "clip"
          /\ project_name \in Projects
          /\ \/ df = ScenarioD
             \/ \E k \in 0..MaxRecords :
                  \E s \in SubjectSeqs(k), u \in RecordUsers(k, "clip"),
                     a \in [1..k -> PipelineClipPayloads] :
                    df = ClassTable(s, u, a, "clip")
    /\ pc = "start"
    /\ agg_params = <<>>
    /\ raw_class_df = <<>>
    /\ part_df = <<>>
    /\ agg_labels_df = <<>>
    /\ new_rows = <<>>
    /\ agg_class_df = <<>>
    /\ fb_in = <<>>
    /\ fb_out = <<>>
    /\ outcome = "none"
    /\ NoRetrieval
    /\ NoExtension

\* a mutation of input_after: n_users is written into the caller's table
input_after_in_place(d) ==
    [i \in DOMAIN d |-> SetCol(d[i], "n_users", n_users(d, d[i].subject_ids))]

\* the caller's table df after the call: df is only read (iterrows, merge,
\* drop and the column selections return new tables), and the columns that
\* aggregrate_labels writes go to the table the flattener returned
input_after(d) == d

\* return agg_class_df, raw_class_df, with the tables built on the way
Returns(r) ==
    /\ raw_class_df' = r.raw
    /\ part_df' = r.part
    /\ agg_labels_df' = r.labels
    /\ new_rows' = r.new_rows
    /\ agg_class_df' = r.agg
    /\ outcome' = "returned"

\* aggregrate_classifications(df, subj_type, project, agg_params): the code
\* reads the parameters without testing them; json.loads raises on a record
\* whose payload is not JSON and the call returns nothing
AggregrateClassifications ==
    /\ pc = "start"
    /\ \E p \in IF subj_type = "frame" THEN FrameParams ELSE ClipParams :
         /\ agg_params' = p
         /\ IF parses(df)
            THEN Returns(aggregrate_classifications(df, subj_type, project_name, p))
            ELSE /\ outcome' = "error"
                 /\ UNCHANGED <<raw_class_df, part_df, agg_labels_df, new_rows,
                                agg_class_df>>
    /\ pc' = "aggregrate_classifications"
    /\ df' = input_after(df)
    /\ UNCHANGED gc_vars
    /\ UNCHANGED ext_vars
    /\ UNCHANGED <<subj_type, project_name, fb_in, fb_out>>

Next == AggregrateClassifications

Spec == Init /\ [][Next]_vars

----------------------------------------------------------------------------
(* Claims on aggregrate_classifications, checked under Spec *)

AggDone == pc = "aggregrate_classifications" /\ outcome = "returned"
FrameDone == AggDone /\ subj_type = "frame"
ClipDone == AggDone /\ subj_type = "clip"

\* the rows handed to the grouping of the frame branch
boxed_rows == SelectSeq(agg_labels_df, LAMBDA r : r.label # "empty")

\* the rows of new_rows built for the group with key name
rows_of_group(name) ==
    SelectSeq(new_rows,
        LAMBDA r : /\ r.filename = name[1]
                   /\ r.label = name[2]
                   /\ r.start_frame = (IF Len(name) = 3 THEN name[3] ELSE NaN))

\* C6: in frame mode the rows built for a group are, in order, one per
\* representative box the resolver returned for that group, none lost and
\* none added, each with the geometry of its box and with the subject id of a
\* row of that group that the returned indices select; every row built belongs
\* to a group, and every non-empty row of the aggregated table is such a row.
C6_ClusterCoverage ==
    FrameDone =>
        LET gs == frame_groups(boxed_rows)
        IN  /\ \A k \in DOMAIN gs :
                  LET fb   == resolve(boxed_rows, gs[k], agg_params)
                      rows == rows_of_group(gs[k].name)
                  IN  /\ Len(rows) = Len(fb.boxes)
                      /\ \A j \in DOMAIN rows :
                            /\ <<rows[j].x, rows[j].y, rows[j].w, rows[j].h>> = fb.boxes[j]
                            /\ \E i \in Range(fb.indices) :
                                  rows[j].subject_ids = gs[k].group[i].subject_ids
            /\ \A j \in DOMAIN new_rows :
                  \E k \in DOMAIN gs : new_rows[j] \in Range(rows_of_group(gs[k].name))
            /\ \A j \in DOMAIN agg_class_df :
                  agg_class_df[j].label # "empty" =>
                      \E i \in DOMAIN new_rows :
                          /\ new_rows[i].subject_ids = agg_class_df[j].subject_ids
                          /\ split_label(new_rows[i].label) = agg_class_df[j].label
                          /\ <<new_rows[i].x, new_rows[i].y, new_rows[i].w, new_rows[i].h>>
                               = <<agg_class_df[j].x, agg_class_df[j].y,
                                   agg_class_df[j].w, agg_class_df[j].h>>

\* C6 witness: one group of one subject whose boxes fall into two accepted
\* clusters: two rows are built, one per representative box.
C6_Witness ==
    /\ FrameDone
    /\ Len(frame_groups(boxed_rows)) = 1
    /\ Len(new_rows) = 2
    /\ new_rows[1].subject_ids = new_rows[2].subject_ids
    /\ <<new_rows[1].x, new_rows[1].y>> # <<new_rows[2].x, new_rows[2].y>>
    /\ Len(agg_class_df) = 2

\* the rows of the agreement-filtered table in the clip group of row o
clip_group(o) ==
    SelectSeq(agg_labels_df,
        LAMBDA r : /\ r.subject_ids = o.subject_ids
                   /\ r.https_location = o.https_location
                   /\ r.subject_type = o.subject_type
                   /\ r.label = o.label)

\* twice the median of the values vals: the lower plus the upper middle value
twice_median(vals) ==
    LET n  == Len(vals)
        V  == Range(vals)
        le(v) == Cardinality({i \in DOMAIN vals : vals[i] <= v})
        ge(v) == Cardinality({i \in DOMAIN vals : vals[i] >= v})
        lo == CHOOSE v \in V : 2 * le(v) >= n /\ \A w \in V : 2 * le(w) >= n => v <= w
        hi == CHOOSE v \in V : 2 * ge(v) >= n /\ \A w \in V : 2 * ge(w) >= n => v >= w
    IN  lo + hi

\* C7: in clip mode every agreement-filtered row falls in the group of
\* exactly one output row (same subject, media location, subject type and
\* label), every output row has a non-empty group, and its how_many and
\* first_seen are the medians of its group's values; in scenario D
\* (how_many 1, 1, 2, 5) the row reports how_many = 1.5 (3 halves).
C7_ClipMedian ==
    ClipDone =>
        /\ \A i \in DOMAIN agg_labels_df :
              Cardinality({j \in DOMAIN agg_class_df :
                  agg_labels_df[i] \in Range(clip_group(agg_class_df[j]))}) = 1
        /\ \A j \in DOMAIN agg_class_df :
              LET g == clip_group(agg_class_df[j])
              IN  /\ g # <<>>
                  /\ 2 * agg_class_df[j].how_many =
                        twice_median([i \in DOMAIN g |-> g[i].how_many])
                  /\ 2 * agg_class_df[j].first_seen =
                        twice_median([i \in DOMAIN g |-> g[i].first_seen])
        /\ (/\ df = ScenarioD
            /\ project_name \in SupportedProjects
            /\ agg_params = [agg_users |-> 5, min_users |-> 2])
           => /\ Len(agg_class_df) = 1
              /\ agg_class_df[1].label = "shark"
              /\ agg_class_df[1].how_many = 3

\* C7 witness: scenario D has been reduced to one row with how_many = 1.5.
C7_Witness ==
    /\ ClipDone
    /\ df = ScenarioD
    /\ Len(agg_labels_df) = 4
    /\ Len(agg_class_df) = 1
    /\ agg_class_df[1].how_many = 3

\* the (subject, label) combinations of a table
subject_labels(t) == {<<t[i].subject_ids, t[i].label>> : i \in DOMAIN t}

\* C8: the clip-mode aggregated table has exactly one row for each distinct
\* (subject, label) combination of the agreement-filtered table, and no
\* other row.
C8_ClipCardinality ==
    ClipDone =>
        /\ subject_labels(agg_class_df) = subject_labels(agg_labels_df)
        /\ Len(agg_class_df) = Cardinality(subject_labels(agg_labels_df))

\* C8 witness: several agreement-filtered rows of two labels of one subject
\* are reduced to two rows.
C8_Witness ==
    /\ ClipDone
    /\ Len(agg_labels_df) >= 3
    /\ Len(agg_class_df) = 2
    /\ agg_class_df[1].subject_ids = agg_class_df[2].subject_ids
    /\ \E i, j \in DOMAIN agg_labels_df :
          /\ i # j
          /\ agg_labels_df[i].label = agg_labels_df[j].label
          /\ agg_labels_df[i].subject_ids = agg_labels_df[j].subject_ids
          /\ agg_labels_df[i].how_many # agg_labels_df[j].how_many

\* a threshold outside [0, 1], or min_users < 1
invalid_configuration ==
    \/ agg_params.min_users < 1
    \/ agg_params.agg_users \notin 0..Den
    \/ /\ subj_type = "frame"
       /\ \/ agg_params.agg_obj \notin 0..Den
          \/ agg_params.agg_iou \notin 0..Den
          \/ agg_params.agg_iua \notin 0..Den

\* C10 as claimed: a call with an invalid configuration ends in an error and
\* returns no aggregated table.
C10_InvalidConfigurationRejected ==
    (pc = "aggregrate_classifications" /\ invalid_configuration) =>
        outcome = "error" /\ agg_class_df = <<>>

----------------------------------------------------------------------------
(* Calls of get_classifications *)

\* the largest number of selected workflows and of classifications in a call
MaxWorkflows == 2
MaxClassifications == 2

\* a selected workflow and its minimum version
WorkflowChoices ==
    {[id |-> 1, version |-> 1], [id |-> 1, version |-> 2], [id |-> 2, version |-> 1]}

\* a row of the classifications of the database
Classification(k, w, v, s) ==
    [classification_id |-> k, workflow_id |-> w, workflow_version |-> v,
     subject_ids |-> s]

\* a row of the subjects table of the database
SubjectRow(s, type, location) ==
    [id |-> s, subject_type |-> type, https_location |-> location,
     filename |-> IF s = 1 THEN "a.jpg" ELSE "b.jpg", movie_id |-> 1,
     frame_number |-> IF type = "frame" THEN s ELSE NaN,
     clip_start_time |-> IF type = "clip" THEN s ELSE NaN]

\* subjects tables: empty, one frame, a frame and a clip, two frames, and a
\* clip with a frame whose location is missing
SubjectTables ==
    {<<>>,
     <<SubjectRow(1, "frame", "http://a")>>,
     <<SubjectRow(1, "frame", "http://a"), SubjectRow(2, "clip", "http://b")>>,
     <<SubjectRow(1, "frame", "http://a"), SubjectRow(2, "frame", "http://b")>>,
     <<SubjectRow(1, "clip", "http://a"), SubjectRow(2, "frame", None)>>}

InitClassifications ==
    /\ workflows \in SeqsUpTo(WorkflowChoices, MaxWorkflows)
    /\ \E k \in 0..MaxClassifications :
         \E w \in [1..k -> {1, 2}], v \in [1..k -> {1, 2}], s \in [1..k -> Subjects] :
           class_df = [i \in 1..k |-> Classification(i, w[i], v[i], s[i])]
    /\ subjects \in SubjectTables
    /\ subj_type \in {"frame", "clip"}
    /\ pc = "start"
    /\ project_name = "Koster_Seafloor_Obs"
    /\ df = <<>>
    /\ agg_params = <<>>
    /\ raw_class_df = <<>>
    /\ part_df = <<>>
    /\ agg_labels_df = <<>>
    /\ new_rows = <<>>
    /\ agg_class_df = <<>>
    /\ fb_in = <<>>
    /\ fb_out = <<>>
    /\ outcome = "none"
    /\ NoExtension
    /\ classes_df = <<>>
    /\ filtered_class_df = <<>>
    /\ log = <<>>

\* return classes_df, with the merged table and the records logged on the way
Retrieves(r) ==
    /\ classes_df' = r.classes_df
    /\ filtered_class_df' = r.filtered_class_df
    /\ log' = r.log
    /\ outcome' = "returned"

\* get_classifications(workflow_dict, workflows_df, subj_type, class_df, db_path,
\* project)
GetClassifications ==
    /\ pc = "start"
    /\ IF raises_key_error(workflows)
       THEN /\ outcome' = "error"
            /\ UNCHANGED <<classes_df, filtered_class_df, log>>
       ELSE Retrieves(get_classifications(workflows, class_df, subjects, subj_type))
    /\ pc' = "get_classifications"
    /\ UNCHANGED <<subj_type, project_name, df, agg_params, raw_class_df, part_df,
                   agg_labels_df, new_rows, agg_class_df, fb_in, fb_out,
                   workflows, class_df, subjects>>
    /\ UNCHANGED ext_vars

NextClassifications == GetClassifications

SpecClassifications == InitClassifications /\ [][NextClassifications]_vars

----------------------------------------------------------------------------
(* Claims on get_classifications, checked under SpecClassifications *)

RetrievalDone == pc = "get_classifications"

\* the subjects table has a row for subject s of the requested type, with
\* its type and its location
has_metadata(s) ==
    \E i \in DOMAIN subjects :
        /\ subjects[i].id = s
        /\ subjects[i].subject_type = subj_type
        /\ subjects[i].https_location # None

ClassificationCols == {"classification_id", "workflow_id", "workflow_version",
                       "subject_ids"}

\* C12: the call fails only when no workflow is selected, never for missing
\* metadata; of the classifications that the workflow selection hands to the
\* join, those whose subject has no row of the requested type (or no
\* location) in the subjects table are not in the returned table, and those
\* whose subject has metadata are all in it, in order, each once with the
\* columns of its subject.
C12_MissingSubjectMetadata ==
    RetrievalDone =>
        /\ outcome = "error" <=> workflows = <<>>
        /\ outcome = "returned" =>
              /\ \A i \in DOMAIN filtered_class_df :
                    has_metadata(filtered_class_df[i].subject_ids)
              /\ select_cols(filtered_class_df, ClassificationCols) =
                    SelectSeq(select_cols(classes_df, ClassificationCols),
                              LAMBDA r : has_metadata(r.subject_ids))
              /\ \A i \in DOMAIN filtered_class_df :
                    /\ filtered_class_df[i].id = filtered_class_df[i].subject_ids
                    /\ filtered_class_df[i].subject_type = subj_type

\* C12 witness: of two classifications handed to the join, the one whose
\* subject is not in the subjects table is excluded and the other is kept.
C12_Witness ==
    /\ RetrievalDone /\ outcome = "returned"
    /\ Len(classes_df) = 2 /\ Len(filtered_class_df) = 1
    /\ has_metadata(classes_df[1].subject_ids)
    /\ ~has_metadata(classes_df[2].subject_ids)
    /\ filtered_class_df[1].classification_id = classes_df[1].classification_id


\* C13 as claimed: whenever the returned table has fewer rows than the table
\* handed to the join, a record readable by the caller carries the number of
\* dropped rows, so that rows in = rows kept + rows reported dropped.
C13_NoSilentDrops ==
    (RetrievalDone /\ outcome = "returned"
        /\ Len(filtered_class_df) # Len(classes_df)) =>
        \E i \in DOMAIN log :
            /\ log[i].args # <<>>
            /\ Len(classes_df) = Len(filtered_class_df) + log[i].args[1]

----------------------------------------------------------------------------
(* Threshold extremes and monotonicity of aggregrate_labels, checked under
   SpecLabels *)

\* every classification of subject s in table t carries label l
unanimous(t, s, l) ==
    \A i \in DOMAIN t :
        t[i].subject_ids = s =>
            \E j \in DOMAIN t :
                /\ t[j].classification_id = t[i].classification_id
                /\ t[j].label = l

\* C15 as claimed: with agg_users = 0 the agreement step keeps every row that
\* passed participation, and with agg_users = 1 every row it keeps carries a
\* label that every rater of the subject assigned.
C15_AgreementExtremes ==
    LabelsDone =>
        /\ agg_params.agg_users = 0 => agg_labels_df = part_df
        /\ agg_params.agg_users = Den =>
              \A i \in DOMAIN agg_labels_df :
                  unanimous(raw_class_df, agg_labels_df[i].subject_ids,
                            agg_labels_df[i].label)


\* the (subject, label) assignments of the rows of t
assignments(t) == {<<t[i].subject_ids, t[i].label>> : i \in DOMAIN t}

\* the agreement thresholds a call is compared with, in tenths
Thresholds == {0, 5, 6, 10}

\* C16: for the table and the agg_users of the call, aggregrate_labels with
\* any smaller min_users returns at least as many rows as the call did.
C16_ParticipationMonotone ==
    LabelsDone =>
        \A m \in 0..agg_params.min_users :
            Len(agg_labels_df) <=
                Len(aggregrate_labels(raw_class_df, agg_params.agg_users, m).agg)

\* C16 witness: a call with min_users = 2 returns rows, and the same call
\* with min_users = 1 returns strictly more.
C16_Witness ==
    /\ LabelsDone
    /\ agg_params.min_users = 2
    /\ agg_labels_df # <<>>
    /\ Len(agg_labels_df) <
          Len(aggregrate_labels(raw_class_df, agg_params.agg_users, 1).agg)

\* C17: for the table and the min_users of the call, the (subject, label)
\* assignments that aggregrate_labels returns are among those it returns
\* with any smaller agg_users.
C17_AgreementMonotone ==
    LabelsDone =>
        \A a \in {b \in Thresholds : b <= agg_params.agg_users} :
            assignments(agg_labels_df) \subseteq
                assignments(aggregrate_labels(raw_class_df, a,
                                              agg_params.min_users).agg)

\* C17 witness: a call with agg_users = 0.6 returns an assignment, and the
\* same call with agg_users = 0.5 returns that one and another.
C17_Witness ==
    /\ LabelsDone
    /\ agg_params.agg_users = 6
    /\ agg_labels_df # <<>>
    /\ assignments(agg_labels_df) #
          assignments(aggregrate_labels(raw_class_df, 5, agg_params.min_users).agg)


----------------------------------------------------------------------------
(* Further claims on aggregrate_classifications, checked under Spec *)

\* C14 as claimed: a call with a valid configuration over an empty table, or
\* over a table of which no row clears the thresholds, returns an empty
\* aggregated table and no error; and a call with an invalid configuration
\* never ends in that same outcome, so that the caller can tell the two apart.
C14_EmptyResultValid ==
    pc = "aggregrate_classifications" =>
        /\ (~invalid_configuration /\ parses(df)
                /\ (df = <<>> \/ agg_labels_df = <<>>)) =>
              outcome = "returned" /\ agg_class_df = <<>>
        /\ invalid_configuration =>
              ~(outcome = "returned" /\ agg_class_df = <<>>)

\* C18: the clip reducer applied to the table it returned gives that table
\* again, the same rows with the same values in the same order.
C18_ClipReduceIdempotent ==
    ClipDone => clip_reduce(agg_class_df) = agg_class_df

\* C18 witness: a reduced table of two rows, one of them the median over
\* several rows of its group, that the reducer leaves as it is.
C18_Witness ==
    /\ ClipDone
    /\ Len(agg_class_df) = 2
    /\ Len(agg_labels_df) > 2
    /\ clip_reduce(agg_class_df) = agg_class_df


\* row r is handed on by aggregrate_labels: it is among the rows that passed
\* participation, and its agreement ratio reaches agg_users
passed_both(r) ==
    /\ \E j \in DOMAIN part_df : part_df[j] = r
    /\ r.n_users >= agg_params.min_users
    /\ r.class_prop.num # NaN
    /\ r.class_prop.num * Den >= agg_params.agg_users * r.class_prop.den

\* C20: the tables of a run depend on each other in the order flattened
\* table, participation, agreement, resolver or reducer: an agreement ratio
\* is computed only on rows of the flattened table whose subject has at
\* least min_users classifications, never on the flattened table itself;
\* every row handed to the resolver or the reducer passed participation and
\* agreement; and every row the resolver or the reducer returns is of a
\* (subject, label) pair that was handed to it.
C20_PipelineOrdering ==
    AggDone =>
        /\ \A i \in DOMAIN raw_class_df : "class_prop" \notin DOMAIN raw_class_df[i]
        /\ \A i \in DOMAIN part_df :
              /\ "class_prop" \in DOMAIN part_df[i]
              /\ part_df[i].n_users >= agg_params.min_users
              /\ distinct_classifications(raw_class_df, part_df[i].subject_ids)
                     >= agg_params.min_users
        /\ \A i \in DOMAIN agg_labels_df : passed_both(agg_labels_df[i])
        /\ subj_type = "frame" =>
              \A i \in DOMAIN new_rows :
                  \E j \in DOMAIN agg_labels_df :
                      /\ agg_labels_df[j].subject_ids = new_rows[i].subject_ids
                      /\ agg_labels_df[j].label = new_rows[i].label
                      /\ agg_labels_df[j].label # "empty"
        /\ subj_type = "clip" =>
              \A i \in DOMAIN agg_class_df :
                  \E j \in DOMAIN agg_labels_df :
                      /\ agg_labels_df[j].subject_ids = agg_class_df[i].subject_ids
                      /\ agg_labels_df[j].label = agg_class_df[i].label

\* C20 witness: a frame run in which one row of the flattened table fails
\* participation or agreement and another is handed on and comes back from
\* the resolver.
C20_Witness ==
    /\ FrameDone
    /\ Len(agg_labels_df) < Len(raw_class_df)
    /\ new_rows # <<>>
    /\ \A i \in DOMAIN new_rows :
          \E j \in DOMAIN agg_labels_df :
              /\ agg_labels_df[j].subject_ids = new_rows[i].subject_ids
              /\ passed_both(agg_labels_df[j])


----------------------------------------------------------------------------
(* Further claims on process_frames, checked under SpecFrames *)

\* row r carries the number (in halves) of key k of shape i under column c,
\* or null when the shape has no key k
field_emitted(r, c, i, k) ==
    IF k \in DOMAIN i THEN r[c] # NaN /\ 2 * r[c] = i[k] ELSE r[c] = NaN

\* row r is the row of shape i of classification cid
row_of_shape(r, cid, i) ==
    /\ r.classification_id = cid
    /\ field_emitted(r, "x", i, "x")
    /\ field_emitted(r, "y", i, "y")
    /\ field_emitted(r, "w", i, "width")
    /\ field_emitted(r, "h", i, "height")
    /\ r.label = IF "tool_label" \in DOMAIN i THEN i.tool_label ELSE None

\* C21 as claimed: a table whose payloads all parse is flattened without an
\* error, and for every drawn shape of a T0 entry there is an emitted row
\* with null for every geometry field and label the shape lacks and with the
\* numeric value of every field it has.
C21_FieldTolerance ==
    (pc = "process_frames" /\ parses(df)) =>
        /\ outcome = "returned"
        /\ \A k \in DOMAIN df :
              \A e \in DOMAIN df[k].annotations.value :
                  df[k].annotations.value[e].task = "T0" =>
                      \A s \in DOMAIN df[k].annotations.value[e].value :
                          \E j \in DOMAIN raw_class_df :
                              row_of_shape(raw_class_df[j], df[k].classification_id,
                                           df[k].annotations.value[e].value[s])


----------------------------------------------------------------------------
(* Effects of a run of aggregrate_classifications on its input, checked
   under Spec *)

\* C22: no step of an aggregation run changes the classification table df
\* that the caller supplied: its rows, their order, their columns and their
\* values are after the run what they were before it.
C22_ReadOnlyInput == [][df' = df]_vars

\* C22 witness: a run has returned a flattened table that carries the column
\* n_users written by aggregrate_labels, and no row of df carries it.
C22_Witness ==
    /\ AggDone
    /\ raw_class_df # <<>>
    /\ \A i \in DOMAIN raw_class_df : "n_users" \in DOMAIN raw_class_df[i]
    /\ \A i \in DOMAIN df : "n_users" \notin DOMAIN df[i]


----------------------------------------------------------------------------
(* Interleaved invocations of aggregrate_classifications *)

\* the largest number of classifications in the table of an invocation
MaxCallRecords == 2

\* two invocations of one mode: the first on subject 1, the second on
\* subject 2
Invocations == {1, 2}

\* a mutation of local_of: the working tables are kept in one slot that all
\* invocations share
shared_of(c, i) == c[1]

\* the working tables of invocation i: raw_class_df, agg_labels_df and
\* agg_class_df are local variables of the call
local_of(c, i) == c[i]

CallPayloads(type) ==
    IF type = "frame"
    THEN {Json(<<T0(<<>>)>>), Json(<<T0(<<ShapeA>>)>>), Malformed}
    ELSE {Json(<<Event("shark", 6, 2)>>), Json(<<Event("shark", 2, 4)>>), Malformed}

CallParams(type) ==
    IF type = "frame"
    THEN {[agg_users |-> 5, min_users |-> m, agg_obj |-> 5, agg_iou |-> 5,
           agg_iua |-> 5] : m \in 1..2}
    ELSE {[agg_users |-> 5, min_users |-> m] : m \in 1..2}

\* an invocation before its first step
NewCall(d, type, p) ==
    [pc |-> "start", df |-> d, subj_type |-> type,
     project_name |-> "Koster_Seafloor_Obs", agg_params |-> p,
     raw_class_df |-> <<>>, labels |-> [raw |-> <<>>, part |-> <<>>, agg |-> <<>>],
     out |-> <<>>, outcome |-> "none"]

\* the invocations on a table of up to MaxCallRecords classifications of
\* subject s, each by another user
CallsOf(s, type) ==
    UNION {{NewCall(ClassTable([i \in 1..k |-> s], [i \in 1..k |-> i], a, type),
                    type, p) :
               a \in [1..k -> CallPayloads(type)], p \in CallParams(type)} :
           k \in 0..MaxCallRecords}

InitReentrant ==
    /\ subj_type \in {"frame", "clip"}
    /\ \E c1 \in CallsOf(1, subj_type), c2 \in CallsOf(2, subj_type) :
         calls = <<c1, c2>>
    /\ pc = "start"
    /\ project_name = "Koster_Seafloor_Obs"
    /\ df = <<>>
    /\ agg_params = <<>>
    /\ raw_class_df = <<>>
    /\ part_df = <<>>
    /\ agg_labels_df = <<>>
    /\ new_rows = <<>>
    /\ agg_class_df = <<>>
    /\ fb_in = <<>>
    /\ fb_out = <<>>
    /\ outcome = "none"
    /\ NoRetrieval
    /\ NoVersionChoice
    /\ NoMovieCheck

\* the flattener of invocation i with arguments c
flattened(c) ==
    IF c.subj_type = "frame" THEN process_frames(c.df)
    ELSE process_clips(c.df, c.project_name)

\* the resolver or reducer of invocation i with arguments c, on the labels
\* table lab
finished(c, lab) ==
    with_user_name(IF c.subj_type = "frame" THEN frames_of_labels(lab, c.agg_params)
                   ELSE clip_tables(lab),
                   c.df)

\* raw_class_df = process_frames(df, ...) or process_clips(df, project);
\* json.loads raises on a payload that is not JSON
Flatten(i) ==
    /\ calls[i].pc = "start"
    /\ calls' = [calls EXCEPT ![i] =
                    IF parses(calls[i].df)
                    THEN [@ EXCEPT !.pc = "flattened",
                                   !.raw_class_df = flattened(calls[i])]
                    ELSE [@ EXCEPT !.pc = "done", !.outcome = "error"]]

\* aggregrate_labels(raw_class_df, agg_users, min_users) on the local table
Label(i) ==
    /\ calls[i].pc = "flattened"
    /\ calls' = [calls EXCEPT ![i] =
                    [@ EXCEPT !.pc = "labelled",
                              !.labels =
                                  aggregrate_labels(local_of(calls, i).raw_class_df,
                                                    calls[i].agg_params.agg_users,
                                                    calls[i].agg_params.min_users)]]

\* the resolver loop or the reducer on the local labels table, the user
\* names, and return
Finish(i) ==
    /\ calls[i].pc = "labelled"
    /\ calls' = [calls EXCEPT ![i] =
                    [@ EXCEPT !.pc = "done", !.outcome = "returned",
                              !.out = finished(calls[i], local_of(calls, i).labels)]]

NextReentrant ==
    /\ \E i \in Invocations : Flatten(i) \/ Label(i) \/ Finish(i)
    /\ UNCHANGED <<pc, subj_type, project_name, df, agg_params, raw_class_df, part_df,
                   agg_labels_df, new_rows, agg_class_df, fb_in, fb_out, outcome,
                   gc_vars, wv_vars, mv_vars>>

SpecReentrant == InitReentrant /\ [][NextReentrant]_vars

----------------------------------------------------------------------------
(* Claims on interleaved invocations, checked under SpecReentrant *)

\* what invocation c returns when it runs alone
alone_result(c) ==
    aggregrate_classifications(c.df, c.subj_type, c.project_name, c.agg_params)

\* C23: whatever the interleaving of the steps of two invocations over
\* different tables, an invocation that has ended has raised exactly when it
\* raises alone, and else has returned the tables it returns alone.
C23_Reentrancy ==
    \A i \in DOMAIN calls :
        calls[i].pc = "done" =>
            IF parses(calls[i].df)
            THEN /\ calls[i].outcome = "returned"
                 /\ calls[i].out = alone_result(calls[i])
            ELSE calls[i].outcome = "error"

\* C23 witness: the second invocation has returned an aggregated row while
\* the first, started before it ended, is between its flattener and its
\* filter.
C23_Witness ==
    /\ calls # <<>>
    /\ calls[1].pc = "flattened" /\ calls[1].raw_class_df # <<>>
    /\ calls[2].pc = "done" /\ calls[2].outcome = "returned"
    /\ calls[2].out.agg # <<>>
    /\ calls[2].out = alone_result(calls[2])


----------------------------------------------------------------------------
(* The resolver's denominator and the empty frames, checked under Spec *)

\* the distinct users with a row of the group named name among the rows
\* handed to the resolver
users_of_group(name) ==
    Cardinality({boxed_rows[i].user_name :
                    i \in {j \in DOMAIN boxed_rows :
                             /\ boxed_rows[j].filename = name[1]
                             /\ boxed_rows[j].label = name[2]
                             /\ Len(name) = 3 => boxed_rows[j].frame_number = name[3]}})

\* C24: the total_users handed to the resolver for a group is the number of
\* distinct users with a row of that group (file, label and frame number)
\* among the non-empty rows that passed the agreement filter, not the number
\* of raters of the subject; a group with the rows of one user is resolved
\* with total_users = 1.
C24_ResolverDenominator ==
    FrameDone =>
        \A k \in DOMAIN frame_groups(boxed_rows) :
            /\ total_users(boxed_rows, frame_groups(boxed_rows)[k]) =
                  users_of_group(frame_groups(boxed_rows)[k].name)
            /\ (\A i, j \in DOMAIN frame_groups(boxed_rows)[k].group :
                    frame_groups(boxed_rows)[k].group[i].user_name =
                        frame_groups(boxed_rows)[k].group[j].user_name)
                 => total_users(boxed_rows, frame_groups(boxed_rows)[k]) = 1

\* C24 witness: a subject of two raters, only one of whom drew "fish"; the
\* label passed agreement at 1/2, its group has one user, and with
\* agg_obj = 1 its box is in the resolver's rows (1 of 1 users, not 1 of 2).
C24_Witness ==
    /\ FrameDone
    /\ agg_params.agg_obj = Den
    /\ \E i \in DOMAIN boxed_rows :
          /\ boxed_rows[i].label = "fish"
          /\ boxed_rows[i].n_users = 2
          /\ users_of_group(<<boxed_rows[i].filename, "fish",
                              boxed_rows[i].frame_number>>) = 1
          /\ \E j \in DOMAIN new_rows :
                /\ new_rows[j].subject_ids = boxed_rows[i].subject_ids
                /\ new_rows[j].label = "fish"


\* the rows of table t with subject s and label "empty"
empty_rows_of(t, s) ==
    SelectSeq(t, LAMBDA r : r.subject_ids = s /\ r.label = "empty")

C26_EmptyBoxExclusive ==
    FrameDone =>
        \A i, j \in DOMAIN agg_class_df :
            (/\ agg_class_df[i].subject_ids = agg_class_df[j].subject_ids
             /\ agg_class_df[i].label = "empty")
            => (agg_class_df[j].label = "empty" \/ agg_class_df[j].x = NaN)


----------------------------------------------------------------------------
(* The workflow selection of get_classifications, checked under
   SpecClassifications *)

\* classification r is of a selected workflow, at the version selected for it
\* or a later one
selected(r, ws) ==
    \E k \in DOMAIN ws :
        r.workflow_id = ws[k].id /\ r.workflow_version >= ws[k].version

\* the ids of the classifications of table t
ids_of(t) == {t[i].classification_id : i \in DOMAIN t}

\* the workflows ws in the opposite order
reversed(ws) == [k \in DOMAIN ws |-> ws[Len(ws) + 1 - k]]

\* C27 as claimed: the returned table holds every classification of class_df
\* that is of a selected workflow at its selected version or later and whose
\* subject has metadata, and no other; and the same classifications are
\* returned when the workflows are listed in the opposite order.
C27_WorkflowSelection ==
    (RetrievalDone /\ outcome = "returned") =>
        /\ ids_of(filtered_class_df) =
              {class_df[i].classification_id :
                  i \in {j \in DOMAIN class_df :
                           /\ selected(class_df[j], workflows)
                           /\ has_metadata(class_df[j].subject_ids)}}
        /\ ids_of(filtered_class_df) =
              ids_of(get_classifications(reversed(workflows), class_df, subjects,
                                         subj_type).filtered_class_df)


----------------------------------------------------------------------------
(* Clip runs of a project without an extraction function, checked under Spec *)

\* C28 as claimed: a clip run for a project that is neither Koster nor
\* Spyfish extracts no row from any classification and returns an empty
\* aggregated table without an error, whatever the table and the thresholds.
C28_UnsupportedProject ==
    (/\ pc = "aggregrate_classifications"
     /\ subj_type = "clip"
     /\ project_name \notin SupportedProjects) =>
        /\ outcome = "returned"
        /\ raw_class_df = <<>>
        /\ agg_class_df = <<>>


----------------------------------------------------------------------------
(* choose_w_version *)

\* workflows_df[workflows_df.display_name == workflow_id].version.unique()
\* .tolist(): the versions of the workflow in order of first occurrence; the
\* versions are numbers, and float(...) of a number is that number
versions_available(wdf, name) ==
    first_occurrences([k \in DOMAIN SelectSeq(wdf, LAMBDA r : r.display_name = name) |->
                          SelectSeq(wdf, LAMBDA r : r.display_name = name)[k].version],
                      1)

\* if len(versions_available) > 1: ... else: raise ValueError("There are no
\* versions available for this workflow.")
raises_value_error(va) == ~(Len(va) > 1)

\* the dropdown and the list that are returned
choose_w_version(va) ==
    [w_version |-> [options |-> va, value |-> va[1]], versions |-> va]

\* the largest number of rows of the workflows table
MaxWorkflowRows == 3

WorkflowNames == {"frames", "clips"}

WorkflowRows == {[display_name |-> n, version |-> v] : n \in WorkflowNames, v \in {1, 2}}

InitVersions ==
    /\ \E k \in 0..MaxWorkflowRows : workflows_df \in [1..k -> WorkflowRows]
    /\ workflow_id \in WorkflowNames
    /\ w_version = <<>>
    /\ versions = <<>>
    /\ pc = "start"
    /\ subj_type = "frame"
    /\ project_name = "Koster_Seafloor_Obs"
    /\ df = <<>>
    /\ agg_params = <<>>
    /\ raw_class_df = <<>>
    /\ part_df = <<>>
    /\ agg_labels_df = <<>>
    /\ new_rows = <<>>
    /\ agg_class_df = <<>>
    /\ fb_in = <<>>
    /\ fb_out = <<>>
    /\ outcome = "none"
    /\ NoRetrieval
    /\ calls = <<>>
    /\ NoMovieCheck

\* return w_version, list(map(float, versions_available))
Chooses(r) ==
    /\ w_version' = r.w_version
    /\ versions' = r.versions
    /\ outcome' = "returned"

\* choose_w_version(workflows_df, workflow_id)
ChooseWVersion ==
    /\ pc = "start"
    /\ IF raises_value_error(versions_available(workflows_df, workflow_id))
       THEN /\ outcome' = "error"
            /\ UNCHANGED <<w_version, versions>>
       ELSE Chooses(choose_w_version(versions_available(workflows_df, workflow_id)))
    /\ pc' = "choose_w_version"
    /\ UNCHANGED <<subj_type, project_name, df, agg_params, raw_class_df, part_df,
                   agg_labels_df, new_rows, agg_class_df, fb_in, fb_out,
                   workflows_df, workflow_id>>
    /\ UNCHANGED <<gc_vars, calls, mv_vars>>

NextVersions == ChooseWVersion

SpecVersions == InitVersions /\ [][NextVersions]_vars

----------------------------------------------------------------------------
(* Claims on choose_w_version, checked under SpecVersions *)

\* the versions that the workflows table holds for the workflow asked for
versions_in_table ==
    {workflows_df[i].version :
        i \in {j \in DOMAIN workflows_df : workflows_df[j].display_name = workflow_id}}

\* C29 as claimed: for a workflow with at least one version in the table the
\* call returns the dropdown and the list of all its versions, and it raises
\* only for a workflow without a version.
C29_VersionChoice ==
    pc = "choose_w_version" =>
        IF versions_in_table # {}
        THEN /\ outcome = "returned"
             /\ {versions[k] : k \in DOMAIN versions} = versions_in_table
             /\ w_version.options = versions
        ELSE outcome = "error"


----------------------------------------------------------------------------
(* check_fps_duration *)

\* df[["fps", "duration"]].isna().any().all(): some row lacks fps and some
\* row lacks duration; the retrieval branch is taken when this holds
isna_any_all(t) ==
    /\ \E i \in DOMAIN t : t[i].fps = NaN
    /\ \E i \in DOMAIN t : t[i].duration = NaN

\* df["fps"].isna() | df["duration"].isna(): the mask of miss_par_df
miss_par(r) == r.fps = NaN \/ r.duration = NaN

\* what cv2 measures of a movie: cap.get(CAP_PROP_FPS) and frame_count / fps
Measured == [fps |-> 25, duration |-> 10]

\* the AWS loop divides frame_count by the fps of the capture, which is 0.0
\* for a movie that cannot be opened: ZeroDivisionError
aws_raises(t) == \E i \in DOMAIN t : miss_par(t[i]) /\ t[i].file = "absent"

\* df["fps"] = df.fps.fillna(miss_par_df.fps), and the same for duration:
\* only the missing values are replaced, by those measured for the row
aws_filled(t) ==
    [i \in DOMAIN t |->
        [t[i] EXCEPT !.fps = IF @ = NaN THEN Measured.fps ELSE @,
                     !.duration = IF @ = NaN THEN Measured.duration ELSE @]]

\* get_length: (fps, length) of a file of the movie folder, (None, None) of
\* a file that is not in it
get_length(r) ==
    IF r.file = "present" THEN Measured ELSE [fps |-> NaN, duration |-> NaN]

\* df.loc[df["fps"].isna() | df["duration"].isna(), "fps":"duration"] = ...:
\* both columns of the rows of the mask are set to the result of get_length
snic_filled(t) ==
    [i \in DOMAIN t |->
        IF miss_par(t[i])
        THEN [t[i] EXCEPT !.fps = get_length(t[i]).fps,
                          !.duration = get_length(t[i]).duration]
        ELSE t[i]]

\* the largest number of rows of the movies table
MaxMovies == 3

\* fps and duration as the csv holds them for a movie, and the movie's file
MovieRows ==
    {[fps |-> f, duration |-> d, file |-> p] :
        f \in {NaN, Measured.fps}, d \in {NaN, Measured.duration},
        p \in {"present", "absent"}}

InitMovies ==
    /\ \E k \in 0..MaxMovies : \E t \in [1..k -> MovieRows] :
           movies_df = [i \in 1..k |->
                           [filename |-> i, fps |-> t[i].fps,
                            duration |-> t[i].duration, file |-> t[i].file]]
    /\ server \in {"AWS", "SNIC"}
    /\ checked_df = <<>>
    /\ pc = "start"
    /\ subj_type = "frame"
    /\ project_name = "Koster_Seafloor_Obs"
    /\ df = <<>>
    /\ agg_params = <<>>
    /\ raw_class_df = <<>>
    /\ part_df = <<>>
    /\ agg_labels_df = <<>>
    /\ new_rows = <<>>
    /\ agg_class_df = <<>>
    /\ fb_in = <<>>
    /\ fb_out = <<>>
    /\ outcome = "none"
    /\ NoRetrieval
    /\ calls = <<>>
    /\ NoVersionChoice

\* check_fps_duration(db_info_dict, project); logging.info writes nothing at
\* the level WARNING of the root logger
CheckFpsDuration ==
    /\ pc = "start"
    /\ IF ~isna_any_all(movies_df)
       THEN /\ outcome' = "checked"
            /\ checked_df' = movies_df
       ELSE IF server = "AWS"
            THEN IF aws_raises(movies_df)
                 THEN /\ outcome' = "error"
                      /\ UNCHANGED checked_df
                 ELSE /\ outcome' = "updated"
                      /\ checked_df' = aws_filled(movies_df)
            ELSE /\ outcome' = "updated"
                 /\ checked_df' = snic_filled(movies_df)
    /\ pc' = "check_fps_duration"
    /\ UNCHANGED <<subj_type, project_name, df, agg_params, raw_class_df, part_df,
                   agg_labels_df, new_rows, agg_class_df, fb_in, fb_out,
                   movies_df, server>>
    /\ UNCHANGED <<gc_vars, calls, wv_vars>>

NextMovies == CheckFpsDuration

SpecMovies == InitMovies /\ [][NextMovies]_vars

----------------------------------------------------------------------------
(* Claims on check_fps_duration, checked under SpecMovies *)

\* C30 as claimed: when a movie of the table lacks fps or lacks duration the
\* retrieval branch is taken, and the table returned holds both values for
\* every movie whose file can be measured; "checked" without retrieval is
\* the outcome only when no movie lacks fps and no movie lacks duration.
C30_FpsDurationCheck ==
    pc = "check_fps_duration" =>
        IF \E i \in DOMAIN movies_df : miss_par(movies_df[i])
        THEN /\ outcome # "checked"
             /\ outcome = "updated" =>
                    \A i \in DOMAIN checked_df :
                        checked_df[i].file = "present" => ~miss_par(checked_df[i])
        ELSE outcome = "checked"

============================================================================
